---- MODULE Spec2Model ----
(***************************************************************************)
(* Economics research digest (econ_research_digest.py): keyword relevance  *)
(* scoring, aggregation over the configured sources, filter and rank,      *)
(* tiering and rendering of the markdown digest.                           *)
(*                                                                         *)
(* Texts are TLA+ strings; Python's slices, lower(), strip(), rsplit() and *)
(* the `in` substring test are computed character by character.  Feeds are *)
(* plain text (no markup), so BeautifulSoup's get_text() returns the text  *)
(* it is given.                                                            *)
(***************************************************************************)
EXTENDS Integers, Sequences, FiniteSets, TLC

VARIABLES
    pc,               \* position of main(): start, fetched, ranked, enriched, done
    feeds,            \* what each source answers in this run: [failed, entries]
    days,             \* args.days
    min_score,        \* args.min_score
    found,            \* per source, the list its source function returned
    caught,           \* per source, whether its except clause ran
    all_papers,       \* fetch_all_papers' result
    relevant_papers,  \* filter_and_rank's result, then enriched in place
    markdown,         \* generate_markdown's result
    paper,            \* the Paper handed to calculate_relevance / format_paper
    calls,            \* number of calculate_relevance calls made on paper
    after_first,      \* paper as it was when the first call returned
    block             \* format_paper's result for paper

vars == <<pc, feeds, days, min_score, found, caught, all_papers,
          relevant_papers, markdown, paper, calls, after_first, block>>

-----------------------------------------------------------------------------
(* Configuration *)

PRIORITY_KEYWORDS == <<
    "price", "pricing", "markup", "profit", "corporate", "concentration",
    "monopoly", "antitrust", "market power", "oligopoly", "merger",
    "gouging", "inflation", "housing", "rent", "mortgage", "landlord",
    "eviction", "tenant", "homeowner", "affordability", "real estate",
    "financialization", "wage", "labor", "worker", "employment",
    "unemployment", "union", "minimum wage", "gig economy",
    "collective bargaining", "strike", "inequality", "wealth",
    "income distribution", "poverty", "mobility", "racial", "gender gap",
    "disparity", "progressive", "consumer", "household", "debt", "credit",
    "family", "childcare", "healthcare cost", "food price", "grocery", "tax",
    "fiscal", "subsidy", "regulation", "enforcement", "antitrust",
    "competition policy", "industrial policy"
>>

SOURCES == <<
    [name |-> "VoxEU/CEPR", type |-> "rss"],
    [name |-> "Equitable Growth", type |-> "rss"],
    [name |-> "EPI", type |-> "rss"],
    [name |-> "Fed Board Working Papers", type |-> "rss"],
    [name |-> "NY Fed Research", type |-> "rss"],
    [name |-> "SF Fed Economic Letters", type |-> "rss"],
    [name |-> "Brookings Economics", type |-> "rss"],
    [name |-> "SSRN Economics", type |-> "scrape_ssrn"]
>>

SourceNames == {SOURCES[i].name : i \in 1..Len(SOURCES)}

-----------------------------------------------------------------------------
(* Python string primitives *)

Min(a, b) == IF a < b THEN a ELSE b

Range(s) == {s[i] : i \in 1..Len(s)}

\* s[:n]
Prefix(s, n) == SubSeq(s, 1, Min(n, Len(s)))

UpperToLower ==
    [c \in {"A","B","C","D","E","F","G","H","I","J","K","L","M","N","O","P",
            "Q","R","S","T","U","V","W","X","Y","Z"} |->
       CASE c = "A" -> "a" [] c = "B" -> "b" [] c = "C" -> "c" [] c = "D" -> "d"
         [] c = "E" -> "e" [] c = "F" -> "f" [] c = "G" -> "g" [] c = "H" -> "h"
         [] c = "I" -> "i" [] c = "J" -> "j" [] c = "K" -> "k" [] c = "L" -> "l"
         [] c = "M" -> "m" [] c = "N" -> "n" [] c = "O" -> "o" [] c = "P" -> "p"
         [] c = "Q" -> "q" [] c = "R" -> "r" [] c = "S" -> "s" [] c = "T" -> "t"
         [] c = "U" -> "u" [] c = "V" -> "v" [] c = "W" -> "w" [] c = "X" -> "x"
         [] c = "Y" -> "y" [] c = "Z" -> "z"]

LowerChar(c) == IF c \in DOMAIN UpperToLower THEN UpperToLower[c] ELSE c

\* s.lower(), character by character (by halves, to keep the evaluation shallow)
RECURSIVE Lower(_)
Lower(s) ==
    IF s = "" THEN ""
    ELSE IF Len(s) = 1 THEN LowerChar(s)
    ELSE LET h == Len(s) \div 2
         IN  Lower(SubSeq(s, 1, h)) \o Lower(SubSeq(s, h + 1, Len(s)))

\* sub in s
Contains(s, sub) ==
    \E i \in 1..(Len(s) - Len(sub) + 1) : SubSeq(s, i, i + Len(sub) - 1) = sub

-----------------------------------------------------------------------------
(* Paper and the relevance scorer *)

NoDate == [known |-> FALSE, age |-> 0]

\* Paper(...): relevance_score 0, matched_keywords [] (__post_init__), key_finding ""
Paper(title, authors, source, url, abstract, date) ==
    [title |-> title, authors |-> authors, source |-> source, url |-> url,
     abstract |-> abstract, date |-> date, relevance_score |-> 0,
     matched_keywords |-> {}, key_finding |-> ""]

\* keyword.lower() for each configured keyword
KeywordLower ==
    [i \in 1..Len(PRIORITY_KEYWORDS) |-> Lower(PRIORITY_KEYWORDS[i])]

\* matches: the keywords of PRIORITY_KEYWORDS[i..] found in text, in list
\* order, one entry per list position
RECURSIVE MatchesFrom(_, _)
MatchesFrom(i, text) ==
    IF i > Len(PRIORITY_KEYWORDS) THEN <<>>
    ELSE (IF Contains(text, KeywordLower[i])
          THEN <<PRIORITY_KEYWORDS[i]>> ELSE <<>>) \o MatchesFrom(i + 1, text)

\* the += of the loop: 3 for a match that is also in the title, else 1,
\* added onto the score the paper already carries
RECURSIVE AddScores(_, _, _)
AddScores(matches, title, score) ==
    IF matches = <<>> THEN score
    ELSE AddScores(Tail(matches), title,
                   score + (IF Contains(title, Lower(Head(matches)))
                            THEN 3 ELSE 1))

\* matched_keywords is list(set(matches)): the matched keywords, each once,
\* in no particular order
calculate_relevance(p) ==
    LET text    == Lower(p.title \o " " \o p.abstract)
        matches == MatchesFrom(1, text)
    IN  [p EXCEPT
           !.relevance_score =
               AddScores(matches, Lower(p.title), p.relevance_score),
           !.matched_keywords = Range(matches)]

-----------------------------------------------------------------------------
(* format_paper *)

AuthorsCap == 60

AbstractShown == 300

KeywordsShown == 5

\* s.rsplit(' ', 1)[0]: s up to its last space, or all of s when it has none
RSplitHead(s) ==
    LET spaces == {i \in 1..Len(s) : SubSeq(s, i, i) = " "}
    IN  IF spaces = {} THEN s
        ELSE SubSeq(s, 1, (CHOOSE i \in spaces : \A j \in spaces : j <= i) - 1)

\* as TruncateAbstract, but cut at 300 characters wherever that falls
TruncateAnywhere(abstract) ==
    IF Len(abstract) > AbstractShown
    THEN Prefix(abstract, AbstractShown) \o "..."
    ELSE Prefix(abstract, AbstractShown)

\* the abstract line of format_paper
TruncateAbstract(abstract) ==
    IF Len(abstract) > AbstractShown
    THEN RSplitHead(Prefix(abstract, AbstractShown)) \o "..."
    ELSE Prefix(abstract, AbstractShown)

\* One rendered block.  key_finding and abstract are the text of their line,
\* "" when the line is not written.  keywords is the set the keywords line
\* draws from and n_keywords how many of them it lists (matched_keywords[:5]).
format_paper(p) ==
    [title |-> p.title,
     url |-> p.url,
     source |-> p.source,
     authors |-> Prefix(p.authors, AuthorsCap)
                   \o (IF Len(p.authors) > AuthorsCap THEN "..." ELSE ""),
     date_str |-> IF p.date.known THEN [text |-> "%b %d", age |-> p.date.age]
                  ELSE [text |-> "Recent", age |-> 0],
     key_finding |-> p.key_finding,
     abstract |-> IF p.abstract # "" /\ p.key_finding = ""
                  THEN TruncateAbstract(p.abstract) ELSE "",
     keywords |-> p.matched_keywords,
     n_keywords |-> Min(KeywordsShown, Cardinality(p.matched_keywords))]

NoBlock == format_paper(Paper("", "", "", "", "", NoDate))

-----------------------------------------------------------------------------
(* The source functions.  A response is what a source answers in this run:  *)
(* failed when the fetch itself raises, else the entries of the feed or     *)
(* listing.  An entry without a title makes parse_rss_feed raise at         *)
(* entry.title, one without a link at entry.link; scrape_ssrn skips an item *)
(* without a title and reads a missing href as "".  age is the entry's date *)
(* in whole days before now.                                                *)

AbstractCap == 500

SsrnCap == 20

\* the characters c with c.isspace() that a string of this module can hold:
\* str.strip() removes these (and the white space beyond ASCII)
Whitespace ==
    {" ", "\t", "\n", "\r", "\f", "", "", "", "", ""}

\* s.strip(): s without its leading and trailing whitespace
RECURSIVE Strip(_)
Strip(s) ==
    IF s = "" THEN ""
    ELSE IF Head(s) \in Whitespace THEN Strip(Tail(s))
    ELSE IF SubSeq(s, Len(s), Len(s)) \in Whitespace
    THEN Strip(SubSeq(s, 1, Len(s) - 1))
    ELSE s

\* s.startswith(prefix)
StartsWith(s, prefix) == Len(s) >= Len(prefix) /\ SubSeq(s, 1, Len(prefix)) = prefix

\* the for loop of parse_rss_feed from entry i on; papers is the list so far.
\* Paper(title=entry.title, ..., url=entry.link, ...) raises for an entry
\* that lacks either attribute; the exception leaves the loop and keeps what
\* papers already holds.
RECURSIVE ParseEntries(_, _, _, _, _)
ParseEntries(source_name, entries, i, cutoff_days, papers) ==
    IF i > Len(entries) THEN [papers |-> papers, caught |-> FALSE]
    ELSE LET entry == entries[i] IN
         IF entry.dated /\ entry.age > cutoff_days
         THEN ParseEntries(source_name, entries, i + 1, cutoff_days, papers)
         ELSE IF ~entry.has_title \/ ~entry.has_link
         THEN [papers |-> papers, caught |-> TRUE]
         ELSE ParseEntries(source_name, entries, i + 1, cutoff_days,
                  Append(papers,
                      calculate_relevance(
                          Paper(entry.title, entry.author, source_name,
                                entry.link,
                                Strip(Prefix(entry.summary, AbstractCap)),
                                IF entry.dated
                                THEN [known |-> TRUE, age |-> entry.age]
                                ELSE NoDate))))

parse_rss_feed(source_name, response, cutoff_days) ==
    IF response.failed THEN [papers |-> <<>>, caught |-> TRUE]
    ELSE ParseEntries(source_name, response.entries, 1, cutoff_days, <<>>)

\* the for loop of scrape_ssrn over items[i..]
RECURSIVE ScrapeItems(_, _, _, _)
ScrapeItems(source_name, items, i, papers) ==
    IF i > Len(items) THEN [papers |-> papers, caught |-> FALSE]
    ELSE LET item == items[i]
             link == IF item.has_link THEN item.link ELSE ""
         IN
         IF ~item.has_title
         THEN ScrapeItems(source_name, items, i + 1, papers)
         ELSE ScrapeItems(source_name, items, i + 1,
                  Append(papers,
                      calculate_relevance(
                          Paper(Strip(item.title), Strip(item.author),
                                source_name,
                                IF link # "" /\ ~StartsWith(link, "http")
                                THEN "https://papers.ssrn.com" \o link
                                ELSE link,
                                Prefix(Strip(item.summary), AbstractCap),
                                [known |-> TRUE, age |-> 0]))))

scrape_ssrn(source_name, response) ==
    IF response.failed THEN [papers |-> <<>>, caught |-> TRUE]
    ELSE ScrapeItems(source_name, Prefix(response.entries, SsrnCap), 1, <<>>)

\* the body of fetch_all_papers' loop for one source
FetchSource(config, responses, cutoff_days) ==
    IF config.type = "rss"
    THEN parse_rss_feed(config.name, responses[config.name], cutoff_days)
    ELSE IF config.type = "scrape_ssrn"
    THEN scrape_ssrn(config.name, responses[config.name])
    ELSE [papers |-> <<>>, caught |-> FALSE]

\* as FetchFrom, but each source's list is put in front of all_papers
RECURSIVE FetchFromPrepending(_, _, _, _, _)
FetchFromPrepending(sources, i, responses, cutoff_days, acc) ==
    IF i > Len(sources) THEN acc
    ELSE LET got == FetchSource(sources[i], responses, cutoff_days) IN
         FetchFromPrepending(sources, i + 1, responses, cutoff_days,
             [all_papers |-> got.papers \o acc.all_papers,
              found |-> [acc.found EXCEPT ![sources[i].name] = got.papers],
              caught |-> [acc.caught EXCEPT ![sources[i].name] = got.caught]])

\* fetch_all_papers with the sources iterated in the order of `sources`
RECURSIVE FetchFrom(_, _, _, _, _)
FetchFrom(sources, i, responses, cutoff_days, acc) ==
    IF i > Len(sources) THEN acc
    ELSE LET got == FetchSource(sources[i], responses, cutoff_days) IN
         FetchFrom(sources, i + 1, responses, cutoff_days,
             [all_papers |-> acc.all_papers \o got.papers,
              found |-> [acc.found EXCEPT ![sources[i].name] = got.papers],
              caught |-> [acc.caught EXCEPT ![sources[i].name] = got.caught]])

fetch_all_papers(sources, responses, cutoff_days) ==
    FetchFrom(sources, 1, responses, cutoff_days,
        [all_papers |-> <<>>,
         found |-> [s \in SourceNames |-> <<>>],
         caught |-> [s \in SourceNames |-> FALSE]])

-----------------------------------------------------------------------------
(* filter_and_rank *)

\* The ranking is computed over references: a reference is the index in
\* papers of a Paper object, so that two objects with equal fields stay two.

\* as InsertByScore, but i goes in front of the objects of its own score
RECURSIVE InsertByScoreUnstable(_, _, _)
InsertByScoreUnstable(papers, sorted, i) ==
    IF sorted = <<>> THEN <<i>>
    ELSE IF papers[Head(sorted)].relevance_score > papers[i].relevance_score
    THEN <<Head(sorted)>> \o InsertByScoreUnstable(papers, Tail(sorted), i)
    ELSE <<i>> \o sorted

\* sorted(..., key=relevance_score, reverse=True) is stable: i goes behind
\* every object whose score is at least its own
RECURSIVE InsertByScore(_, _, _)
InsertByScore(papers, sorted, i) ==
    IF sorted = <<>> THEN <<i>>
    ELSE IF papers[Head(sorted)].relevance_score >= papers[i].relevance_score
    THEN <<Head(sorted)>> \o InsertByScore(papers, Tail(sorted), i)
    ELSE <<i>> \o sorted

\* the first n of refs, sorted
RECURSIVE SortedByScore(_, _, _)
SortedByScore(papers, refs, n) ==
    IF n = 0 THEN <<>>
    ELSE InsertByScore(papers, SortedByScore(papers, refs, n - 1), refs[n])

\* as RankedRefs, but every object is kept
RankedRefsUnfiltered(papers, threshold) ==
    SortedByScore(papers, [i \in 1..Len(papers) |-> i], Len(papers))

\* the objects filter_and_rank returns, in the order it returns them
RankedRefs(papers, threshold) ==
    LET Relevant(i) == papers[i].relevance_score >= threshold
        relevant == SelectSeq([i \in 1..Len(papers) |-> i], Relevant)
    IN  SortedByScore(papers, relevant, Len(relevant))

\* the list filter_and_rank returns: a new list of the same objects
filter_and_rank(papers, threshold) ==
    LET refs == RankedRefs(papers, threshold)
    IN  [k \in 1..Len(refs) |-> papers[refs[k]]]

-----------------------------------------------------------------------------
(* generate_markdown *)

TierCap == 10

KeywordRows == 15

high_relevance(papers) ==
    LET In(p) == p.relevance_score >= 5 IN SelectSeq(papers, In)

\* as medium_relevance, but from above 2
MediumAboveTwo(papers) ==
    LET In(p) == 2 < p.relevance_score /\ p.relevance_score < 5
    IN  SelectSeq(papers, In)

medium_relevance(papers) ==
    LET In(p) == 2 <= p.relevance_score /\ p.relevance_score < 5
    IN  SelectSeq(papers, In)

other_relevant(papers) ==
    LET In(p) == 1 <= p.relevance_score /\ p.relevance_score < 2
    IN  SelectSeq(papers, In)

\* as RenderTier, but with a block for every record of the tier
RenderTierUncapped(header, tier) ==
    IF tier = <<>> THEN <<>>
    ELSE <<[header |-> header,
            blocks |-> [i \in 1..Len(tier) |-> format_paper(tier[i])]]>>

\* a tier's header and the blocks of tier[:10]; nothing for an empty tier
RenderTier(header, tier) ==
    IF tier = <<>> THEN <<>>
    ELSE <<[header |-> header,
            blocks |-> [i \in 1..Min(TierCap, Len(tier)) |-> format_paper(tier[i])]]>>

\* keyword_counts: for each keyword in some paper's matched_keywords, the
\* number of papers that carry it
KeywordCounts(papers) ==
    LET all_keywords == UNION {papers[i].matched_keywords : i \in 1..Len(papers)}
    IN  {<<kw, Cardinality({i \in 1..Len(papers) :
                               kw \in papers[i].matched_keywords})>> :
            kw \in all_keywords}

\* The digest.  placeholder: the "No highly relevant papers found" line.
\* sections: the tier headers written, in order, each with its blocks.
\* summary: the Summary block.  keyword_counts, n_keyword_rows: the table
\* "Keywords Matched This Week" lists the n_keyword_rows highest counts.
\* TiersAndSummary is generate_markdown from "Group by relevance tier" on.
TiersAndSummary(papers, lookback) ==
    LET Zero(p) == p.relevance_score = 0 IN
    [days |-> lookback, placeholder |-> FALSE,
     sections |-> RenderTier("High Priority", high_relevance(papers))
                  \o RenderTier("Worth Reading", medium_relevance(papers))
                  \o RenderTier("Also Relevant", other_relevant(papers)),
     summary |-> [present |-> TRUE,
                  total_scanned |-> Len(papers) + Len(SelectSeq(papers, Zero)),
                  relevant_found |-> Len(papers),
                  high_priority |-> Len(high_relevance(papers)),
                  sources_checked |-> Len(SOURCES)],
     keyword_counts |-> KeywordCounts(papers),
     n_keyword_rows |-> Min(KeywordRows, Cardinality(KeywordCounts(papers)))]

generate_markdown(papers, lookback) ==
    IF papers = <<>>
    THEN [days |-> lookback, placeholder |-> TRUE, sections |-> <<>>,
          summary |-> [present |-> FALSE, total_scanned |-> 0,
                       relevant_found |-> 0, high_priority |-> 0,
                       sources_checked |-> 0],
          keyword_counts |-> {}, n_keyword_rows |-> 0]
    ELSE TiersAndSummary(papers, lookback)

-----------------------------------------------------------------------------
(* Values of the variables a specification does not use *)

NoPaper == Paper("", "", "", "", "", NoDate)

NoFeeds == [s \in SourceNames |-> [failed |-> FALSE, entries |-> <<>>]]

NoFound == [s \in SourceNames |-> <<>>]

NoCaught == [s \in SourceNames |-> FALSE]

NoMarkdown ==
    [days |-> 0, placeholder |-> FALSE, sections |-> <<>>,
     summary |-> [present |-> FALSE, total_scanned |-> 0, relevant_found |-> 0,
                  high_priority |-> 0, sources_checked |-> 0],
     keyword_counts |-> {}, n_keyword_rows |-> 0]

MainIdle ==
    /\ feeds = NoFeeds /\ days = 7 /\ min_score = 1
    /\ found = NoFound /\ caught = NoCaught
    /\ all_papers = <<>> /\ relevant_papers = <<>> /\ markdown = NoMarkdown

MainUnchanged ==
    UNCHANGED <<feeds, days, min_score, found, caught, all_papers,
                relevant_papers, markdown>>

-----------------------------------------------------------------------------
(* SpecScore: calculate_relevance called on a freshly created Paper, and    *)
(* again on the Paper it returned.                                          *)

MaxCalls == 2

ScoreTitles ==
    {"", "Notes", "Rent Control", "MINIMUM WAGE", "Market",
     "Antitrust Enforcement"}

ScoreAbstracts ==
    {"", "power", "on housing", "Tax and debt", "rent", "of antitrust law"}

InitScore ==
    /\ pc = "score"
    /\ MainIdle
    /\ \E t \in ScoreTitles, a \in ScoreAbstracts :
          paper = Paper(t, "A. Smith", "EPI", "http://epi/1", a, NoDate)
    /\ calls = 0
    /\ after_first = NoPaper
    /\ block = NoBlock

Score ==
    /\ pc = "score"
    /\ calls < MaxCalls
    /\ paper' = calculate_relevance(paper)
    /\ calls' = calls + 1
    /\ after_first' = IF calls = 0 THEN paper' ELSE after_first
    /\ UNCHANGED <<pc, block>>
    /\ MainUnchanged

NextScore == Score

SpecScore == InitScore /\ [][NextScore]_vars

-----------------------------------------------------------------------------
(* SpecFormat: format_paper on a scored Paper, with or without a key        *)
(* finding, whose abstract is up to 500 characters long.                    *)

\* characters lo..hi of the text that has a space at the positions in spaces
\* and "a" elsewhere
RECURSIVE TextBetween(_, _, _)
TextBetween(lo, hi, spaces) ==
    IF lo > hi THEN ""
    ELSE IF lo = hi THEN (IF lo \in spaces THEN " " ELSE "a")
    ELSE LET mid == (lo + hi) \div 2
         IN  TextBetween(lo, mid, spaces) \o TextBetween(mid + 1, hi, spaces)

TextOf(n, spaces) == TextBetween(1, n, spaces)

FormatLengths == {299, 300, 301, 310}

FormatSpaces == {2, 298, 299, 300, 301}

\* abstracts are stripped: no space at either end
FormatAbstracts ==
    UNION {{TextOf(n, sp) : sp \in SUBSET {i \in FormatSpaces : i < n}} :
           n \in FormatLengths}

FormatAuthors ==
    {"A. Smith", TextOf(61, {3, 30})}

InitFormat ==
    /\ pc = "format"
    /\ MainIdle
    /\ \E a \in FormatAbstracts, au \in FormatAuthors,
          kf \in {"", "Rents rose 4 percent."} :
          paper = [calculate_relevance(
                      Paper("Rent Control", au, "EPI", "http://epi/1", a,
                            [known |-> TRUE, age |-> 1]))
                   EXCEPT !.key_finding = kf]
    /\ calls = 1
    /\ after_first = NoPaper
    /\ block = NoBlock

FormatPaper ==
    /\ pc = "format"
    /\ block' = format_paper(paper)
    /\ pc' = "formatted"
    /\ UNCHANGED <<paper, calls, after_first>>
    /\ MainUnchanged

NextFormat == FormatPaper

SpecFormat == InitFormat /\ [][NextFormat]_vars

-----------------------------------------------------------------------------
(* main(): fetch_all_papers, filter_and_rank, the optional summaries,       *)
(* generate_markdown.                                                       *)

DefaultDays == 7

DefaultMinScore == 1

DefaultSummarize == 15

\* --min-score as the caller may give it
MinScores == {0, DefaultMinScore, 4}

\* --summarize
SummarizeChoices == {0, 1, DefaultSummarize}

\* what summarize_with_claude returns: "" when the call fails
Findings == {"", "Rents rose 4 percent."}

\* The API's answers to the n calls of one run: every call succeeds or fails
\* on its own.
ApiAnswers(n) == [1..n -> Findings]

\* what the k-th call of summarize_with_claude returns
AnswerTo(api, k) == api[k]

\* The loop of main() over relevant_papers[:n] from call k on: call k sets
\* the key finding of the object refs[k], which all_papers holds as well.
RECURSIVE SummarizeTop(_, _, _, _, _)
SummarizeTop(papers, refs, k, n, api) ==
    IF k > n THEN papers
    ELSE SummarizeTop([papers EXCEPT ![refs[k]].key_finding = AnswerTo(api, k)],
                      refs, k + 1, n, api)

FetchAllPapers ==
    /\ pc = "start"
    /\ LET got == fetch_all_papers(SOURCES, feeds, days) IN
         /\ all_papers' = got.all_papers
         /\ found' = got.found
         /\ caught' = got.caught
    /\ pc' = "fetched"
    /\ UNCHANGED <<feeds, days, min_score, relevant_papers, markdown,
                   paper, calls, after_first, block>>

FilterAndRank ==
    /\ pc = "fetched"
    /\ relevant_papers' = filter_and_rank(all_papers, min_score)
    /\ pc' = "ranked"
    /\ UNCHANGED <<feeds, days, min_score, found, caught, all_papers, markdown,
                   paper, calls, after_first, block>>

\* The summaries of main(): with an API key and --summarize n > 0, each of
\* the first n ranked papers gets the key finding its own API call returns.
\* relevant_papers and all_papers hold the same Paper objects, so all_papers
\* sees the key findings of exactly the objects that were summarized; refs
\* names the object behind each place of relevant_papers.
Enrich ==
    /\ pc = "ranked"
    /\ \E refs \in {RankedRefs(all_papers, min_score)},
          has_key \in BOOLEAN, summarize \in SummarizeChoices :
         LET n == IF has_key /\ summarize > 0
                  THEN Min(summarize, Len(refs)) ELSE 0
         IN  \E api \in ApiAnswers(n) :
               /\ all_papers' = SummarizeTop(all_papers, refs, 1, n, api)
               /\ relevant_papers' =
                     [k \in 1..Len(refs) |-> all_papers'[refs[k]]]
    /\ pc' = "enriched"
    /\ UNCHANGED <<feeds, days, min_score, found, caught, markdown,
                   paper, calls, after_first, block>>

GenerateMarkdown ==
    /\ pc = "enriched"
    /\ markdown' = generate_markdown(relevant_papers, days)
    /\ pc' = "done"
    /\ UNCHANGED <<feeds, days, min_score, found, caught, all_papers,
                   relevant_papers, paper, calls, after_first, block>>

Next == FetchAllPapers \/ FilterAndRank \/ Enrich \/ GenerateMarkdown

-----------------------------------------------------------------------------
(* What the sources answer *)

RentEntry ==
    [title |-> "Rent", has_title |-> TRUE, has_link |-> TRUE,
     summary |-> "",
     author |-> "A. Smith", link |-> "http://r/", dated |-> TRUE, age |-> 1]

MemoEntry ==
    [title |-> "Memo", has_title |-> TRUE, has_link |-> TRUE,
     summary |-> " on file \n",
     author |-> "", link |-> "/m/", dated |-> FALSE, age |-> 0]

OldEntry ==
    [title |-> "Tax Debt", has_title |-> TRUE, has_link |-> TRUE,
     summary |-> "",
     author |-> "B. Jones", link |-> "/t/", dated |-> TRUE, age |-> 9]

BadEntry ==
    [title |-> "", has_title |-> FALSE, has_link |-> TRUE,
     summary |-> "Rent",
     author |-> "", link |-> "/b/", dated |-> TRUE, age |-> 2]

NoLinkEntry ==
    [title |-> "Tax Debt", has_title |-> TRUE, has_link |-> FALSE,
     summary |-> "",
     author |-> "B. Jones", link |-> "", dated |-> TRUE, age |-> 2]

TaxEntry ==
    [title |-> "Tax Debt", has_title |-> TRUE, has_link |-> TRUE,
     summary |-> "",
     author |-> "B. Jones", link |-> "http://t/", dated |-> TRUE, age |-> 7]

TopEntry ==
    [title |-> "Tax Debt Rent", has_title |-> TRUE, has_link |-> TRUE,
     summary |-> "",
     author |-> "C. Wu", link |-> "http://x/", dated |-> TRUE, age |-> 0]

TwoEntry ==
    [title |-> "Memo", has_title |-> TRUE, has_link |-> TRUE,
     summary |-> "tax debt",
     author |-> "", link |-> "/w/", dated |-> FALSE, age |-> 0]

NoteEntry ==
    [title |-> "Memo", has_title |-> TRUE, has_link |-> TRUE,
     summary |-> "\ton rent ",
     author |-> "", link |-> "/n/", dated |-> TRUE, age |-> 3]

\* the entries of the given kinds, each that has a link with one of its own
WithLinks(kinds) ==
    [i \in 1..Len(kinds) |->
        IF kinds[i].has_link THEN [kinds[i] EXCEPT !.link = @ \o ToString(i)]
        ELSE kinds[i]]

FetchFailed == [failed |-> TRUE, entries |-> <<>>]

Answer(kinds) == [failed |-> FALSE, entries |-> WithLinks(kinds)]

\* the sources that answer with entries; the others all answer with an empty
\* feed, or all fail
LiveSources == <<"EPI", "SSRN Economics">>

Responses(a, b, others_fail) ==
    [s \in SourceNames |->
        IF s = LiveSources[1] THEN a
        ELSE IF s = LiveSources[2] THEN b
        ELSE [failed |-> others_fail, entries |-> <<>>]]

MainInit(responses, thresholds) ==
    /\ pc = "start"
    /\ feeds \in responses
    /\ days = DefaultDays
    /\ min_score \in thresholds
    /\ found = NoFound /\ caught = NoCaught
    /\ all_papers = <<>> /\ relevant_papers = <<>> /\ markdown = NoMarkdown
    /\ paper = NoPaper /\ calls = 0 /\ after_first = NoPaper /\ block = NoBlock

-----------------------------------------------------------------------------
(* Spec: feeds of a few entries, of every kind, in every arrangement, with   *)
(* the default threshold or none                                            *)

MaxEntries == 2

SmallKinds == {RentEntry, MemoEntry, OldEntry, BadEntry, NoLinkEntry}

SmallAnswers ==
    {FetchFailed} \cup
    {Answer(ks) : ks \in UNION {[1..n -> SmallKinds] : n \in 0..MaxEntries}}

SmallResponses ==
    {Responses(t[1], t[2], t[3]) :
        t \in {u \in SmallAnswers \X SmallAnswers \X BOOLEAN :
                 Len(u[1].entries) + Len(u[2].entries) <= MaxEntries}}

Init == MainInit(SmallResponses, {0, DefaultMinScore})

Spec == Init /\ [][Next]_vars

-----------------------------------------------------------------------------
(* SpecBulk: feeds long enough to fill a tier beyond its cap, with every     *)
(* threshold of MinScores                                                   *)

Over == 1

BulkKinds == {RentEntry, NoteEntry, MemoEntry}

Repeated(kind, n) == [i \in 1..n |-> kind]

\* one entry of each kind from the lowest score up beside a short listing
\* that ties with it; a High tier longer than a tier shows, its best entry
\* last in the feed; one kind of entry more often than a tier shows
BulkResponses ==
    {Responses(Answer(<<MemoEntry, NoteEntry, TwoEntry, RentEntry, TaxEntry,
                        TopEntry>>),
               Answer(<<RentEntry, MemoEntry>>), FALSE),
     Responses(Answer(Repeated(TaxEntry, TierCap + Over - 1) \o <<TopEntry>>),
               Answer(<<>>), FALSE)} \cup
    {Responses(Answer(Repeated(k, TierCap + Over)), Answer(<<>>), FALSE) :
        k \in BulkKinds}

InitBulk == MainInit(BulkResponses, MinScores)

SpecBulk == InitBulk /\ [][Next]_vars

-----------------------------------------------------------------------------
(* Properties *)

Scores(papers) == [i \in 1..Len(papers) |-> papers[i].relevance_score]

Count(papers, p) == Cardinality({i \in 1..Len(papers) : papers[i] = p})

\* the records of papers with relevance_score v, in the order of papers
WithScore(papers, v) ==
    LET In(p) == p.relevance_score = v IN SelectSeq(papers, In)

\* the records of papers from source s, in the order of papers
FromSource(papers, s) ==
    LET In(p) == p.source = s IN SelectSeq(papers, In)

RECURSIVE FoundInOrder(_)
FoundInOrder(n) ==
    IF n = 0 THEN <<>> ELSE FoundInOrder(n - 1) \o found[SOURCES[n].name]

(* C1: at the return of filter_and_rank the result holds exactly the input   *)
(* records with relevance_score >= min_score, each as often as the input     *)
(* does, in non-increasing score order, equal scores in their input order;   *)
(* the input list is still what fetch_all_papers returned.                   *)
C1_FilterAndRank ==
    pc = "ranked" =>
      /\ \A p \in Range(all_papers) \cup Range(relevant_papers) :
            Count(relevant_papers, p) =
               IF p.relevance_score >= min_score THEN Count(all_papers, p) ELSE 0
      /\ \A i, j \in 1..Len(relevant_papers) :
            i < j => relevant_papers[i].relevance_score
                        >= relevant_papers[j].relevance_score
      /\ \A v \in Range(Scores(all_papers)) :
            v >= min_score =>
               WithScore(relevant_papers, v) = WithScore(all_papers, v)
      /\ all_papers = FoundInOrder(Len(SOURCES))

\* a ranking that dropped records, moved records and kept a tie between two
\* sources in input order
C1_Witness ==
    /\ pc = "ranked"
    /\ Len(relevant_papers) < Len(all_papers)
    /\ \E i \in 1..Len(all_papers) :
          /\ all_papers[i].relevance_score >= min_score
          /\ \E j \in 1..(i - 1) :
                /\ all_papers[j].relevance_score >= min_score
                /\ all_papers[j].relevance_score < all_papers[i].relevance_score
    /\ \E i, j \in 1..Len(relevant_papers) :
          /\ i < j
          /\ relevant_papers[i].relevance_score = relevant_papers[j].relevance_score
          /\ relevant_papers[i].source # relevant_papers[j].source

(* C7: with the default threshold 1, every record of the filtered list is in *)
(* exactly one of the three tiers of generate_markdown, and the tiers hold   *)
(* nothing else.                                                             *)
C7_TiersPartition ==
    (pc \in {"ranked", "enriched", "done"} /\ min_score = DefaultMinScore) =>
      LET high   == high_relevance(relevant_papers)
          medium == medium_relevance(relevant_papers)
          other  == other_relevant(relevant_papers)
      IN  /\ \A i \in 1..Len(relevant_papers) :
                Count(high, relevant_papers[i])
                  + Count(medium, relevant_papers[i])
                  + Count(other, relevant_papers[i])
                = Count(relevant_papers, relevant_papers[i])
          /\ \A i \in 1..Len(relevant_papers) :
                Cardinality({t \in {high, medium, other} :
                                relevant_papers[i] \in Range(t)}) = 1
          /\ Len(high) + Len(medium) + Len(other) = Len(relevant_papers)

\* a digest rendered with the default threshold whose three tiers are all filled
C7_Witness ==
    /\ pc = "done"
    /\ min_score = DefaultMinScore
    /\ Len(markdown.sections) = 3
    /\ Len(relevant_papers) < Len(all_papers)

\* the records of papers with lo <= relevance_score < hi, in the order of papers
ScoreBand(papers, lo, hi) ==
    LET In(p) == lo <= p.relevance_score /\ p.relevance_score < hi
    IN  SelectSeq(papers, In)

\* the records of papers with relevance_score >= lo, in the order of papers
ScoreAtLeast(papers, lo) ==
    LET In(p) == lo <= p.relevance_score IN SelectSeq(papers, In)

\* the section written for a tier whose records are tier: none for an empty
\* tier, else one section with the blocks of the first min(n, 10) records
SectionShows(header, tier) ==
    LET written == {i \in 1..Len(markdown.sections) :
                       markdown.sections[i].header = header}
    IN  IF tier = <<>> THEN written = {}
        ELSE /\ Cardinality(written) = 1
             /\ \A i \in written :
                   markdown.sections[i].blocks =
                      [k \in 1..(IF Len(tier) < 10 THEN Len(tier) ELSE 10) |->
                          format_paper(tier[k])]

(* C9: each tier's rendered list is the first min(n, 10) of its n records in *)
(* the order of the ranked input, and the 'High priority' statistic is n.    *)
C9_TierCap ==
    (pc = "done" /\ relevant_papers # <<>>) =>
      /\ SectionShows("High Priority", ScoreAtLeast(relevant_papers, 5))
      /\ SectionShows("Worth Reading", ScoreBand(relevant_papers, 2, 5))
      /\ SectionShows("Also Relevant", ScoreBand(relevant_papers, 1, 2))
      /\ markdown.summary.high_priority
            = Len(ScoreAtLeast(relevant_papers, 5))

\* a High tier of more than 10 records with different scores: 10 are rendered,
\* all are counted
C9_Witness ==
    /\ pc = "done"
    /\ markdown.summary.high_priority > 10
    /\ \E i \in 1..Len(markdown.sections) :
          /\ markdown.sections[i].header = "High Priority"
          /\ Len(markdown.sections[i].blocks) = 10
    /\ \E i, j \in 1..Len(relevant_papers) :
          /\ relevant_papers[i].relevance_score >= 5
          /\ relevant_papers[j].relevance_score >= 5
          /\ relevant_papers[i].relevance_score # relevant_papers[j].relevance_score

Reverse(seq) == [i \in 1..Len(seq) |-> seq[Len(seq) + 1 - i]]

\* seq[k:] + seq[:k]
Rotate(seq, k) == SubSeq(seq, k + 1, Len(seq)) \o SubSeq(seq, 1, k)

\* orders in which the sources may be queried
SourceOrders ==
    {SOURCES, Reverse(SOURCES), Rotate(SOURCES, 1), Rotate(SOURCES, 7),
     Rotate(Reverse(SOURCES), 2)}

\* the ranked list of a run that queries the sources in the order `sources`
RankedFor(sources) ==
    filter_and_rank(fetch_all_papers(sources, feeds, days).all_papers, min_score)

SourcePosition(sources, name) ==
    CHOOSE i \in 1..Len(sources) : sources[i].name = name

(* C4 as claimed: the ranked list is the same for every order in which the   *)
(* sources are queried.                                                      *)
C4_AnyOrderSameRanking ==
    pc = "ranked" => \A o \in SourceOrders : RankedFor(o) = relevant_papers

(* C4 amended: for every order in which the sources are queried the ranked   *)
(* list holds the same records and the same sequence of scores; two records  *)
(* of equal score from one source keep the order of their source's list, and *)
(* two of equal score from different sources stand in the order in which     *)
(* their sources were queried.                                               *)
C4_SameUpToTiesAcrossSources ==
    pc = "ranked" =>
      \A o \in SourceOrders :
         LET ranked == RankedFor(o) IN
         /\ Len(ranked) = Len(relevant_papers)
         /\ \A p \in Range(ranked) \cup Range(relevant_papers) :
               Count(ranked, p) = Count(relevant_papers, p)
         /\ Scores(ranked) = Scores(relevant_papers)
         /\ \A s \in SourceNames, v \in Range(Scores(ranked)) :
               WithScore(FromSource(ranked, s), v) = WithScore(found[s], v)
         /\ \A i, j \in 1..Len(ranked) :
               (/\ i < j
                /\ ranked[i].relevance_score = ranked[j].relevance_score
                /\ ranked[i].source # ranked[j].source)
               => SourcePosition(o, ranked[i].source)
                     < SourcePosition(o, ranked[j].source)

\* two sources each gave a record of the same score, and another query order
\* ranks them the other way round
C4_Witness ==
    /\ pc = "ranked"
    /\ Len(relevant_papers) >= 2
    /\ \E o \in SourceOrders : RankedFor(o) # relevant_papers

(* C5: a source whose fetch or parse raises contributes no record to the    *)
(* aggregate.                                                               *)
C5_FailedSourceEmpty ==
    pc # "start" => \A s \in SourceNames : caught[s] => found[s] = <<>>

HandedToRenderer == pc \in {"enriched", "done"}

(* C6 as claimed: whatever min_score the caller gives, the list handed to    *)
(* generate_markdown has no record of score 0 and 'Total papers scanned'     *)
(* equals 'Relevant papers found'.                                           *)
C6_NoZeroScoreAnyThreshold ==
    HandedToRenderer =>
      /\ \A i \in 1..Len(relevant_papers) : relevant_papers[i].relevance_score # 0
      /\ (pc = "done" /\ markdown.summary.present) =>
            markdown.summary.total_scanned = markdown.summary.relevant_found

(* C6 amended: for every min_score >= 1 the list handed to generate_markdown *)
(* has no record of score 0 and 'Total papers scanned' equals 'Relevant      *)
(* papers found'.                                                            *)
C6_NoZeroScoreFromThresholdOne ==
    (HandedToRenderer /\ min_score >= 1) =>
      /\ \A i \in 1..Len(relevant_papers) : relevant_papers[i].relevance_score # 0
      /\ (pc = "done" /\ markdown.summary.present) =>
            /\ markdown.summary.total_scanned = markdown.summary.relevant_found
            /\ markdown.summary.relevant_found = Len(relevant_papers)

\* a digest with statistics, made with a threshold >= 1 from a collection
\* that held a record of score 0
C6_Witness ==
    /\ pc = "done"
    /\ min_score >= 1
    /\ markdown.summary.present
    /\ \E i \in 1..Len(all_papers) : all_papers[i].relevance_score = 0
    /\ markdown.summary.total_scanned < Len(all_papers)

PlaceholderOnly ==
    /\ markdown.placeholder
    /\ markdown.sections = <<>>
    /\ ~markdown.summary.present
    /\ markdown.keyword_counts = {}
    /\ markdown.n_keyword_rows = 0

(* C8: a run in which every source fails, and any run with an empty         *)
(* filtered list, ends with the placeholder line and no tier header,         *)
(* statistics or keyword table.                                              *)
C8_AllFailOrEmptyGivesPlaceholder ==
    pc = "done" =>
      /\ (\A s \in SourceNames : caught[s]) => PlaceholderOnly
      /\ relevant_papers = <<>> => PlaceholderOnly

\* the per-keyword contribution: 3 if the lowercased keyword is in the
\* lowercased title, else 1 if it is in the lowercased text, else 0
Contribution(keyword, title, text) ==
    IF Contains(Lower(title), Lower(keyword)) THEN 3
    ELSE IF Contains(Lower(text), Lower(keyword)) THEN 1
    ELSE 0

RECURSIVE SumOver(_, _, _)
SumOver(keywords, title, text) ==
    IF keywords = {} THEN 0
    ELSE LET k == CHOOSE x \in keywords : TRUE
         IN  Contribution(k, title, text) + SumOver(keywords \ {k}, title, text)

(* C2: a second calculate_relevance on the same Paper, title and abstract    *)
(* unchanged, leaves relevance_score and matched_keywords as the first call  *)
(* left them.                                                                *)
C2_ScoringIdempotent ==
    calls >= 2 =>
      /\ paper.relevance_score = after_first.relevance_score
      /\ paper.matched_keywords = after_first.matched_keywords

(* C3: after calculate_relevance on a fresh Paper, relevance_score is the    *)
(* sum over the distinct configured keywords of their contribution (3 in the *)
(* title, else 1 in the text, else 0): a keyword listed twice counts once.   *)
C3_ScoreIsSumOverDistinctKeywords ==
    (pc = "score" /\ calls = 1) =>
      paper.relevance_score =
         SumOver(Range(PRIORITY_KEYWORDS), paper.title,
                 paper.title \o " " \o paper.abstract)

\* where format_paper cut the abstract: the length of what it kept
CutAt == Len(block.abstract) - Len("...")

CharAt(s, i) == SubSeq(s, i, i)

Truncated ==
    /\ pc = "formatted"
    /\ paper.key_finding = ""
    /\ Len(paper.abstract) > 300

KeepsPrefix ==
    /\ 0 <= CutAt /\ CutAt <= 300
    /\ block.abstract = SubSeq(paper.abstract, 1, CutAt) \o "..."

(* C10 as claimed: an abstract longer than 300 characters, shown for want of *)
(* a key finding, is rendered as at most 300 of its characters and an        *)
(* ellipsis, and the cut never has a character of a word on both sides.      *)
C10_CutNeverMidWord ==
    Truncated =>
      /\ KeepsPrefix
      /\ ~(/\ CutAt >= 1
           /\ CharAt(paper.abstract, CutAt) # " "
           /\ CharAt(paper.abstract, CutAt + 1) # " ")

(* C10 amended: such an abstract is rendered as at most 300 of its           *)
(* characters and an ellipsis; when its first 300 characters hold a space    *)
(* the cut is just before the last such space, and when they hold none the   *)
(* cut is after exactly 300 characters, wherever that falls.                 *)
C10_CutAtLastSpaceIfAny ==
    Truncated =>
      /\ KeepsPrefix
      /\ LET spaces == {i \in 1..300 : CharAt(paper.abstract, i) = " "} IN
         IF spaces = {} THEN CutAt = 300
         ELSE /\ CutAt + 1 \in spaces
              /\ \A i \in spaces : i <= CutAt + 1

\* an abstract of more than 300 characters cut at a space short of 300
C10_Witness ==
    /\ Truncated
    /\ 1 <= CutAt /\ CutAt < 299
    /\ CharAt(paper.abstract, CutAt + 1) = " "
    /\ CharAt(paper.abstract, 300) # " "
    /\ CharAt(paper.abstract, 301) # " "

====
